---- MODULE Spec2Model ----
(***************************************************************************)
(* Model of the wallet-app ledger engine (internal/service/wallet.go, the  *)
(* context-aware revision), of the PostgreSQL store it drives              *)
(* (internal/repository/postgres, db/migrations) and of the idempotency    *)
(* middleware in front of the HTTP handlers.                               *)
(*                                                                         *)
(* Money is counted in thousandths of the currency unit, so that amounts   *)
(* finer than the two decimals the NUMERIC(20, 2) columns keep exist.      *)
(***************************************************************************)
EXTENDS Integers, Sequences, FiniteSets, TLC

VARIABLES
    wallets,    \* committed wallets rows: wallet id -> balance
    ledger,     \* committed transactions rows, in commit order
    lock,       \* row lock of each wallet row: the calls whose transaction holds it (none or one)
    call,       \* each engine call: its arguments, position, locals and store transaction
    faults,     \* store failures injected so far
    nextRef,    \* source of fresh uuid.New() reference ids
    txClock,    \* the store's clock: the start time of the last transaction begun
    users,      \* committed users rows: user id -> name
    owner,      \* wallets.user_id of each wallets row
    nextId,     \* source of fresh uuid.New() user and wallet ids
    http,       \* each HTTP request being served: what was sent, its position in the
                \* middleware and handler, and the response written
    served,     \* the exchanges completed so far, in the order of their completion
    cache,      \* globalCache.cache: request key -> CacheEntry
    now,        \* the wall clock, in hours
    ticks,      \* how often the clock has advanced
    mutex,      \* globalCache.mutex: the workers holding it shared, and exclusively
    worker,     \* each worker inside getCachedResponse or cacheResponse: its position
    fatal       \* the runtime has stopped the process with a fatal error

engineVars == <<wallets, ledger, lock, call, faults, nextRef, txClock>>
userVars == <<users, owner, nextId>>
mutexVars == <<mutex, worker, fatal>>
httpVars == <<http, served, cache, now, ticks, mutexVars>>
vars == <<wallets, ledger, lock, call, faults, nextRef, txClock, users, owner, nextId, http, served,
          cache, now, ticks, mutex, worker, fatal>>

----------------------------------------------------------------------------
(* Bounds *)

NCalls == 2
MaxFaults == 1

Calls == 1..NCalls

(* Scale of the model's money unit: one cent, the finest amount a
   NUMERIC(20, 2) column keeps, is 10 thousandths. *)
Cent == 10

\* one currency unit
One == 100 * Cent

\* wallets 1 and 2 exist, wallet 3 has no row
WalletIds == {1, 2, 3}
InitialWallets == {1, 2}
\* the state the calls start from: two users were created, then Deposit(1, 1.00)
InitialBalance(w) == IF w = 1 THEN One ELSE 0
\* the users that own wallets 1 and 2
InitialUsers == {4, 5}
InitialOwner(w) == w + 3
\* -1.00, 0, 0.004, 0.005, 1.00
Amounts == {0 - One, 0, 4, 5, One}
Descriptions == {"rent"}

\* a nullable column or pointer: <<>> is NULL / nil, <<v>> holds v
Null == <<>>
Some(v) == <<v>>
\* a row lock is the set of calls whose transaction holds it: empty, or one call
NoCall == {}

----------------------------------------------------------------------------
(* The store *)

\* NUMERIC(20, 2): a value with more decimals is rounded to two, ties away from zero.
Numeric2(x) ==
    IF x >= 0
        THEN ((x + (Cent \div 2)) \div Cent) * Cent
        ELSE 0 - (((0 - x) + (Cent \div 2)) \div Cent) * Cent

\* transactions.type CHECK and transactions.amount CHECK (amount > 0), on the stored value
TransactionTypes == {"deposit", "withdraw", "transfer_in", "transfer_out"}

\* a transactions table that checks the type only
CheckTypeOnly(e) == e.type \in TransactionTypes

CheckTransactionRow(e) ==
    /\ e.type \in TransactionTypes
    /\ e.amount > 0

\* a plain SELECT, which waits for no row lock
NeverWaits(c, w) == TRUE

\* SELECT ... FOR UPDATE waits while another transaction holds the row lock
RowLockFree(c, w) == lock[w] \subseteq {c}

\* a store whose transactions keep no row lock beyond the statement that took it
LocksDropped(c, r, lk) == [w \in DOMAIN lk |-> IF lk[w] = {c} THEN NoCall ELSE lk[w]]

\* a row lock lives as long as its transaction is open on the server
LocksAfter(c, r, lk) ==
    [w \in DOMAIN lk |-> IF lk[w] = {c} /\ r.tx # "open" THEN NoCall ELSE lk[w]]

RECURSIVE ApplyWrites(_, _)
ApplyWrites(ws, wr) ==
    IF wr = <<>> THEN ws
    ELSE ApplyWrites([ws EXCEPT ![Head(wr).wallet] = Head(wr).balance], Tail(wr))

----------------------------------------------------------------------------
(* The engine's validations *)

\* a deposit validation that accepts every amount
validateNoAmount(amount) == "nil"

validateDepositAmount(amount) ==
    IF amount <= 0 THEN "deposit amount must be positive" ELSE "nil"

\* a withdraw validation that looks at the balance only
validateBalanceOnly(amount, currentBalance) ==
    IF currentBalance < amount THEN "insufficient balance for withdrawal" ELSE "nil"

\* a withdraw validation that looks at the amount's sign only
validatePositiveOnly(amount, currentBalance) ==
    IF amount <= 0 THEN "withdraw amount must be positive" ELSE "nil"

validateWithdrawAmount(amount, currentBalance) ==
    IF amount <= 0 THEN "withdraw amount must be positive"
    ELSE IF currentBalance < amount THEN "insufficient balance for withdrawal"
    ELSE "nil"

validateTransferAmount(amount, fromWalletID, toWalletID) ==
    IF amount <= 0 THEN "transfer amount must be positive"
    ELSE IF fromWalletID = toWalletID THEN "cannot transfer to the same wallet"
    ELSE "nil"

----------------------------------------------------------------------------
(* Engine calls *)

\* a locked read that reports a missing row as it reports any other failure
GetWalletFails(what) ==
    CASE what = "wallet" -> "failed to get wallet"
      [] what = "source wallet" -> "failed to get source wallet"
      [] what = "destination wallet" -> "failed to get destination wallet"

\* the engine's error for a locked read that found no row: GetWalletByIDWithTx
\* turns sql.ErrNoRows into "wallet not found", and the engine wraps it
WalletNotFound(what) ==
    CASE what = "wallet" -> "failed to get wallet: wallet not found"
      [] what = "source wallet" -> "failed to get source wallet: wallet not found"
      [] what = "destination wallet" -> "failed to get destination wallet: wallet not found"

\* the time the store's clock shows when the next transaction begins
StoreNow == txClock + 1

IdleCall ==
    [pc |-> "idle", op |-> "none", from |-> 0, to |-> 0, amount |-> 0, desc |-> Null,
     tx |-> "none", began |-> 0, err |-> FALSE, rdFrom |-> 0, rdTo |-> 0,
     wr |-> <<>>, pend |-> <<>>, ref |-> Null, res |-> "", out |-> Null]

\* the deferred function of Deposit, Withdraw and Transfer: roll back when the
\* function's own err variable is set and a transaction was begun
Deferred(r) ==
    IF r.err /\ r.tx \in {"open", "aborted"}
        THEN [r EXCEPT !.tx = "closed", !.wr = <<>>, !.pend = <<>>]
        ELSE r

\* return result with the function's err variable as given, running the deferred function
Return(r, result, errSet) ==
    Deferred([r EXCEPT !.pc = "done", !.res = result, !.err = errSet, !.out = Null])

\* a statement the server rejects aborts the transaction on the server
Aborted(r) == [r EXCEPT !.tx = "aborted", !.wr = <<>>, !.pend = <<>>]

Put(c, r, lk) ==
    /\ call' = [call EXCEPT ![c] = r]
    /\ lock' = LocksAfter(c, r, lk)

CanFail == faults < MaxFaults
Fault == faults' = faults + 1

\* a store call that fails: the server has aborted the transaction, the engine returns msg
StoreCallFails(c, msg, errSet) ==
    /\ CanFail
    /\ Fault
    /\ Put(c, Return(Aborted(call[c]), msg, errSet), lock)

\* a transactions row that is stored without its reference_id
EntryWithoutReference(w, type, amount, ref, desc, began) ==
    [wallet |-> w, type |-> type, amount |-> Numeric2(amount), ref |-> Null, desc |-> desc,
     created_at |-> began]

\* a transactions row; created_at defaults to now(), which is the start time of the
\* transaction that inserts the row
Entry(w, type, amount, ref, desc, began) ==
    [wallet |-> w, type |-> type, amount |-> Numeric2(amount), ref |-> ref, desc |-> desc,
     created_at |-> began]

\* a commit that makes the balance writes durable and loses the entries
CommitsBalancesOnly(c, r) ==
    /\ wallets' = ApplyWrites(wallets, r.wr)
    /\ ledger' = ledger
    /\ Put(c, [r EXCEPT !.tx = "closed", !.wr = <<>>, !.pend = <<>>], lock)

\* tx.Commit succeeds: the transaction's writes become the committed state
Commits(c, r) ==
    /\ wallets' = ApplyWrites(wallets, r.wr)
    /\ ledger' = ledger \o r.pend
    /\ Put(c, [r EXCEPT !.tx = "closed", !.wr = <<>>, !.pend = <<>>], lock)

\* tx.Commit fails: nothing is committed and the transaction is over
CommitFails(c, msg, errSet) ==
    /\ CanFail
    /\ Fault
    /\ Put(c, Return([call[c] EXCEPT !.tx = "closed", !.wr = <<>>, !.pend = <<>>], msg, errSet), lock)
    /\ UNCHANGED <<wallets, ledger>>

----------------------------------------------------------------------------
(* WalletService.Deposit *)

DepositCall(c, w, a) ==
    /\ call[c].pc = "idle"
    /\ LET r == [IdleCall EXCEPT !.op = "deposit", !.from = w, !.amount = a]
           v == validateDepositAmount(a)
       IN  \/ /\ v # "nil"
              /\ Put(c, [r EXCEPT !.pc = "done", !.res = v], lock)
              /\ UNCHANGED faults
           \/ /\ v = "nil"
              /\ Put(c, [r EXCEPT !.pc = "get", !.tx = "open", !.began = StoreNow], lock)
              /\ UNCHANGED faults
           \/ /\ v = "nil"
              /\ CanFail
              /\ Fault
              /\ Put(c, [r EXCEPT !.pc = "done", !.res = "failed to begin transaction",
                                  !.err = TRUE], lock)
    /\ txClock' = IF call'[c].tx = "open" THEN StoreNow ELSE txClock
    /\ UNCHANGED <<wallets, ledger, nextRef>>

DepositGet(c) ==
    LET r == call[c] IN
    /\ r.pc = "get"
    /\ r.op = "deposit"
    /\ \/ /\ r.from \notin DOMAIN wallets
          /\ Put(c, Return(r, WalletNotFound("wallet"), TRUE), lock)
          /\ UNCHANGED faults
       \/ /\ r.from \in DOMAIN wallets
          /\ RowLockFree(c, r.from)
          /\ Put(c, [r EXCEPT !.pc = "update", !.rdFrom = wallets[r.from]],
                 [lock EXCEPT ![r.from] = {c}])
          /\ UNCHANGED faults
       \/ StoreCallFails(c, "failed to get wallet", TRUE)
    /\ UNCHANGED <<wallets, ledger, nextRef, txClock>>

DepositUpdate(c) ==
    LET r == call[c]
        newBalance == r.rdFrom + r.amount
    IN
    /\ r.pc = "update"
    /\ r.op = "deposit"
    /\ \/ /\ Put(c, [r EXCEPT !.pc = "insert", !.out = Some(newBalance),
                        !.wr = Append(@, [wallet |-> r.from, balance |-> Numeric2(newBalance)])],
                 lock)
          /\ UNCHANGED faults
       \/ StoreCallFails(c, "failed to update wallet balance", TRUE)
    /\ UNCHANGED <<wallets, ledger, nextRef, txClock>>

DepositInsert(c) ==
    LET r == call[c]
        transaction == Entry(r.from, "deposit", r.amount, Null, Null, r.began)
    IN
    /\ r.pc = "insert"
    /\ r.op = "deposit"
    /\ \/ /\ CheckTransactionRow(transaction)
          /\ Put(c, [r EXCEPT !.pc = "commit", !.pend = Append(@, transaction)], lock)
          /\ UNCHANGED faults
       \/ /\ ~CheckTransactionRow(transaction)
          /\ Put(c, Return(Aborted(r), "failed to record transaction", TRUE), lock)
          /\ UNCHANGED faults
       \/ StoreCallFails(c, "failed to record transaction", TRUE)
    /\ UNCHANGED <<wallets, ledger, nextRef, txClock>>

DepositCommit(c) ==
    LET r == call[c] IN
    /\ r.pc = "commit"
    /\ r.op = "deposit"
    /\ \/ /\ Commits(c, [r EXCEPT !.pc = "done", !.res = "ok"])
          /\ UNCHANGED faults
       \/ CommitFails(c, "failed to commit transaction", TRUE)
    /\ UNCHANGED <<nextRef, txClock>>

----------------------------------------------------------------------------
(* WalletService.Withdraw *)

WithdrawCall(c, w, a) ==
    /\ call[c].pc = "idle"
    /\ LET r == [IdleCall EXCEPT !.op = "withdraw", !.from = w, !.amount = a]
       IN  \/ /\ Put(c, [r EXCEPT !.pc = "get", !.tx = "open", !.began = StoreNow], lock)
              /\ UNCHANGED faults
           \/ /\ CanFail
              /\ Fault
              /\ Put(c, [r EXCEPT !.pc = "done", !.res = "failed to begin transaction",
                                  !.err = TRUE], lock)
    /\ txClock' = IF call'[c].tx = "open" THEN StoreNow ELSE txClock
    /\ UNCHANGED <<wallets, ledger, nextRef>>

\* the locked read, then validateWithdrawAmount on the balance it returned; the
\* validation's error is held by an err of the if statement's own scope
WithdrawGet(c) ==
    LET r == call[c] IN
    /\ r.pc = "get"
    /\ r.op = "withdraw"
    /\ \/ /\ r.from \notin DOMAIN wallets
          /\ Put(c, Return(r, WalletNotFound("wallet"), TRUE), lock)
          /\ UNCHANGED faults
       \/ /\ r.from \in DOMAIN wallets
          /\ RowLockFree(c, r.from)
          /\ LET v == validateWithdrawAmount(r.amount, wallets[r.from])
                 got == [r EXCEPT !.rdFrom = wallets[r.from]]
                 lk == [lock EXCEPT ![r.from] = {c}]
             IN  IF v # "nil"
                     THEN Put(c, Return(got, v, FALSE), lk)
                     ELSE Put(c, [got EXCEPT !.pc = "update"], lk)
          /\ UNCHANGED faults
       \/ StoreCallFails(c, "failed to get wallet", TRUE)
    /\ UNCHANGED <<wallets, ledger, nextRef, txClock>>

WithdrawUpdate(c) ==
    LET r == call[c]
        newBalance == r.rdFrom - r.amount
    IN
    /\ r.pc = "update"
    /\ r.op = "withdraw"
    /\ \/ /\ Put(c, [r EXCEPT !.pc = "insert", !.out = Some(newBalance),
                        !.wr = Append(@, [wallet |-> r.from, balance |-> Numeric2(newBalance)])],
                 lock)
          /\ UNCHANGED faults
       \/ StoreCallFails(c, "failed to update wallet balance", TRUE)
    /\ UNCHANGED <<wallets, ledger, nextRef, txClock>>

WithdrawInsert(c) ==
    LET r == call[c]
        transaction == Entry(r.from, "withdraw", r.amount, Null, Null, r.began)
    IN
    /\ r.pc = "insert"
    /\ r.op = "withdraw"
    /\ \/ /\ CheckTransactionRow(transaction)
          /\ Put(c, [r EXCEPT !.pc = "commit", !.pend = Append(@, transaction)], lock)
          /\ UNCHANGED faults
       \/ /\ ~CheckTransactionRow(transaction)
          /\ Put(c, Return(Aborted(r), "failed to record transaction", TRUE), lock)
          /\ UNCHANGED faults
       \/ StoreCallFails(c, "failed to record transaction", TRUE)
    /\ UNCHANGED <<wallets, ledger, nextRef, txClock>>

WithdrawCommit(c) ==
    LET r == call[c] IN
    /\ r.pc = "commit"
    /\ r.op = "withdraw"
    /\ \/ /\ Commits(c, [r EXCEPT !.pc = "done", !.res = "ok"])
          /\ UNCHANGED faults
       \/ CommitFails(c, "failed to commit transaction", TRUE)
    /\ UNCHANGED <<nextRef, txClock>>

----------------------------------------------------------------------------
(* WalletService.Transfer; an error of transferExecution, and one of tx.Commit,
   is held by an err of the if statement's own scope, while the deferred
   function reads the err that BeginTx assigned *)

TransferCall(c, f, t, a, d) ==
    /\ call[c].pc = "idle"
    /\ LET r == [IdleCall EXCEPT !.op = "transfer", !.from = f, !.to = t, !.amount = a,
                                 !.desc = Some(d)]
           v == validateTransferAmount(a, f, t)
       IN  \/ /\ v # "nil"
              /\ Put(c, [r EXCEPT !.pc = "done", !.res = v], lock)
              /\ UNCHANGED faults
           \/ /\ v = "nil"
              /\ Put(c, [r EXCEPT !.pc = "lockFrom", !.tx = "open", !.began = StoreNow], lock)
              /\ UNCHANGED faults
           \/ /\ v = "nil"
              /\ CanFail
              /\ Fault
              /\ Put(c, [r EXCEPT !.pc = "done", !.res = "failed to begin transaction",
                                  !.err = TRUE], lock)
    /\ txClock' = IF call'[c].tx = "open" THEN StoreNow ELSE txClock
    /\ UNCHANGED <<wallets, ledger, nextRef>>

\* lockAndGetWallets, first read
TransferLockFrom(c) ==
    LET r == call[c] IN
    /\ r.pc = "lockFrom"
    /\ \/ /\ r.from \notin DOMAIN wallets
          /\ Put(c, Return(r, WalletNotFound("source wallet"), FALSE), lock)
          /\ UNCHANGED faults
       \/ /\ r.from \in DOMAIN wallets
          /\ RowLockFree(c, r.from)
          /\ Put(c, [r EXCEPT !.pc = "lockTo", !.rdFrom = wallets[r.from]],
                 [lock EXCEPT ![r.from] = {c}])
          /\ UNCHANGED faults
       \/ StoreCallFails(c, "failed to get source wallet", FALSE)
    /\ UNCHANGED <<wallets, ledger, nextRef, txClock>>

\* lockAndGetWallets, second read, then transferExecution's balance check
TransferLockTo(c) ==
    LET r == call[c] IN
    /\ r.pc = "lockTo"
    /\ \/ /\ r.to \notin DOMAIN wallets
          /\ Put(c, Return(r, WalletNotFound("destination wallet"), FALSE), lock)
          /\ UNCHANGED faults
       \/ /\ r.to \in DOMAIN wallets
          /\ RowLockFree(c, r.to)
          /\ LET got == [r EXCEPT !.rdTo = wallets[r.to]]
                 lk == [lock EXCEPT ![r.to] = {c}]
             IN  IF got.rdFrom < r.amount
                     THEN Put(c, Return(got, "insufficient balance", FALSE), lk)
                     ELSE Put(c, [got EXCEPT !.pc = "updFrom"], lk)
          /\ UNCHANGED faults
       \/ StoreCallFails(c, "failed to get destination wallet", FALSE)
    /\ UNCHANGED <<wallets, ledger, nextRef, txClock>>

\* updateTransferBalances
TransferUpdateFrom(c) ==
    LET r == call[c]
        newFromBalance == r.rdFrom - r.amount
    IN
    /\ r.pc = "updFrom"
    /\ \/ /\ Put(c, [r EXCEPT !.pc = "updTo",
                        !.wr = Append(@, [wallet |-> r.from, balance |-> Numeric2(newFromBalance)])],
                 lock)
          /\ UNCHANGED faults
       \/ StoreCallFails(c, "failed to update source wallet balance", FALSE)
    /\ UNCHANGED <<wallets, ledger, nextRef, txClock>>

TransferUpdateTo(c) ==
    LET r == call[c]
        newToBalance == r.rdTo + r.amount
    IN
    /\ r.pc = "updTo"
    /\ \/ /\ Put(c, [r EXCEPT !.pc = "insOut",
                        !.wr = Append(@, [wallet |-> r.to, balance |-> Numeric2(newToBalance)])],
                 lock)
          /\ UNCHANGED faults
       \/ StoreCallFails(c, "failed to update destination wallet balance", FALSE)
    /\ UNCHANGED <<wallets, ledger, nextRef, txClock>>

\* createTransferRecords
TransferInsertOut(c) ==
    LET r == call[c]
        referenceID == nextRef
        outTransaction == Entry(r.from, "transfer_out", r.amount, Some(referenceID), r.desc,
                               r.began)
    IN
    /\ r.pc = "insOut"
    /\ nextRef' = nextRef + 1
    /\ \/ /\ CheckTransactionRow(outTransaction)
          /\ Put(c, [r EXCEPT !.pc = "insIn", !.ref = Some(referenceID),
                              !.pend = Append(@, outTransaction)], lock)
          /\ UNCHANGED faults
       \/ /\ ~CheckTransactionRow(outTransaction)
          /\ Put(c, Return(Aborted(r), "failed to create outbound transaction", FALSE), lock)
          /\ UNCHANGED faults
       \/ StoreCallFails(c, "failed to create outbound transaction", FALSE)
    /\ UNCHANGED <<wallets, ledger, txClock>>

TransferInsertIn(c) ==
    LET r == call[c]
        inTransaction == Entry(r.to, "transfer_in", r.amount, r.ref, r.desc, r.began)
    IN
    /\ r.pc = "insIn"
    /\ \/ /\ CheckTransactionRow(inTransaction)
          /\ Put(c, [r EXCEPT !.pc = "commit", !.pend = Append(@, inTransaction)], lock)
          /\ UNCHANGED faults
       \/ /\ ~CheckTransactionRow(inTransaction)
          /\ Put(c, Return(Aborted(r), "failed to create inbound transaction", FALSE), lock)
          /\ UNCHANGED faults
       \/ StoreCallFails(c, "failed to create inbound transaction", FALSE)
    /\ UNCHANGED <<wallets, ledger, nextRef, txClock>>

TransferCommit(c) ==
    LET r == call[c] IN
    /\ r.pc = "commit"
    /\ r.op = "transfer"
    /\ \/ /\ Commits(c, [r EXCEPT !.pc = "done", !.res = "ok"])
          /\ UNCHANGED faults
       \/ CommitFails(c, "failed to commit transaction", FALSE)
    /\ UNCHANGED <<nextRef, txClock>>

----------------------------------------------------------------------------
(* The store's and the caller's part *)

LockPcs == {"get", "lockFrom", "lockTo"}

Target(r) == IF r.pc = "lockTo" THEN r.to ELSE r.from

\* call c is in a locked read that waits for another transaction's row lock
Blocked(c) ==
    /\ call[c].pc \in LockPcs
    /\ Target(call[c]) \in DOMAIN wallets
    /\ ~RowLockFree(c, Target(call[c]))

Holder(c) == CHOOSE d \in lock[Target(call[c])] : TRUE

RECURSIVE WaitsFor(_, _, _)
WaitsFor(c, d, n) ==
    /\ Blocked(c)
    /\ \/ Holder(c) = d
       \/ n > 1 /\ WaitsFor(Holder(c), d, n - 1)

Deadlocked(c) == WaitsFor(c, c, NCalls)

\* the server's deadlock detector fails the waiting statement of one transaction of
\* a cycle and aborts that transaction; only a Transfer waits while holding a lock
DeadlockAbort(c) ==
    /\ Deadlocked(c)
    /\ call[c].op = "transfer"
    /\ Put(c, Return(Aborted(call[c]), "failed to get destination wallet", FALSE), lock)
    /\ UNCHANGED <<wallets, ledger, faults, nextRef, txClock>>

\* BeginTx(ctx): when the caller's context ends, database/sql rolls back a
\* transaction that was neither committed nor rolled back
CtxDone(c) ==
    /\ call[c].pc = "done"
    /\ call[c].tx \in {"open", "aborted"}
    /\ Put(c, [call[c] EXCEPT !.tx = "closed"], lock)
    /\ UNCHANGED <<wallets, ledger, faults, nextRef, txClock>>

----------------------------------------------------------------------------
(* HTTP requests and responses. A string is a sequence of symbols, so that two
   strings concatenate with \o. *)

\* requests served in all, and advances of the clock
MaxRequests == 2
MaxTicks == 2
\* the cache size above which cacheResponse cleans up, scaled down from 10000
CacheLimit == 1
\* getCachedResponse: an entry older than 24 hours is no longer served
TTLHours == 24
\* cleanupOldEntries: entries older than 1 hour are removed
CleanupHours == 1
TickHours == {1, 24}

Request(method, path, body, token) ==
    [method |-> method, path |-> path, body |-> body, token |-> token]

UsersPath == <<"/api/v1/users">>
WalletPath(id, op) == <<"/api/v1/wallets/", id, op>>

CreateJson(name) == <<"{", "name:", name, "}">>
AmountJson(t) == <<"{", "amount:", t, "}">>
TransferJson(to, t, d) ==
    <<"{", "to_wallet_id:", to, ",", "amount:", t, ",", "description:", d, "}">>

Keyed == <<"k">>
Unkeyed == <<>>

HttpRequests ==
    {Request("POST", UsersPath, CreateJson(n), Keyed) : n \in {"a", "b", ""}}
    \cup {Request("POST", UsersPath, CreateJson("a"), Unkeyed)}
    \cup {Request("POST", WalletPath("2", "/deposit"), AmountJson("1.00"), k) :
              k \in {Keyed, Unkeyed}}
    \cup {Request("POST", WalletPath("2", "/deposit"), AmountJson("0"), Keyed)}
    \cup {Request("POST", WalletPath("1", "/withdraw"), AmountJson("1.00"), Keyed)}
    \cup {Request("POST", WalletPath("1", "/transfer"), TransferJson("2", "1.00", "rent"), Keyed),
          Request("POST", WalletPath("2", "/transfer"), TransferJson("1", "1.00", "rent"), Keyed)}
    \cup {Request("GET", WalletPath("1", "/balance"), <<>>, Keyed)}
    \cup {Request("POST", UsersPath, CreateJson("a"), <<"k", "k">>),
          Request("POST", UsersPath, CreateJson("a") \o <<"k">>, Keyed)}

\* chi's router: the handler a path is routed to
Route(req) == IF req.path = UsersPath THEN "/users" ELSE req.path[3]

\* uuid.Parse of the {id} path parameter
IdText == <<"1", "2", "3">>
ValidId(s) == \E w \in DOMAIN IdText : IdText[w] = s
ParseId(s) == CHOOSE w \in DOMAIN IdText : IdText[w] = s

\* json.Decoder.Decode reads the first JSON value of the body and ignores what
\* follows it; a field the value lacks keeps its zero value
JsonEnd(body) ==
    IF \E i \in 1..Len(body) : body[i] = "}"
        THEN CHOOSE i \in 1..Len(body) : body[i] = "}" /\ \A j \in 1..(i - 1) : body[j] # "}"
        ELSE 0
ValidJson(body) == Len(body) >= 1 /\ body[1] = "{" /\ JsonEnd(body) > 0
Decode(body, field, zero) ==
    IF \E i \in 2..(JsonEnd(body) - 2) : body[i] = field
        THEN body[(CHOOSE i \in 2..(JsonEnd(body) - 2) : body[i] = field) + 1]
        ELSE zero

\* decimal.NewFromFloat of the float64 the JSON number was parsed to
NewFromFloat(t) == IF t = "1.00" THEN One ELSE 0

Body(kind, id, wallet, balance, text) ==
    [kind |-> kind, id |-> id, wallet |-> wallet, balance |-> balance, text |-> text]
UserBody(uid, name, wid) == Body("user", uid, wid, 0, name)
WalletBody(w, balance) == Body("wallet", w, w, balance, "")
MessageBody(msg) == Body("message", 0, 0, 0, msg)
ErrorBody(msg) == Body("error", 0, 0, 0, msg)

\* response headers: header name -> value
NoHeaders == [k \in {} |-> ""]
ContentType(v) == "Content-Type" :> v
Merge(headers, set) ==
    [k \in (DOMAIN headers) \cup (DOMAIN set) |-> IF k \in DOMAIN set THEN set[k] ELSE headers[k]]

\* RequestIDMiddleware, with a request id made by uuid.New()
RequestIDHeader(n) == "X-Request-ID" :> ToString(n)

\* the router's CORS middleware
CorsHeaders ==
    ("Access-Control-Allow-Origin" :> "*")
    @@ ("Access-Control-Allow-Methods" :> "GET, POST, PUT, DELETE, OPTIONS")
    @@ ("Access-Control-Allow-Headers" :> "Accept, Authorization, Content-Type, X-CSRF-Token")

\* status is the status line the client receives, wrote the status code the
\* handler passed to WriteHeader (0 when it never called WriteHeader), set the
\* headers the handler set after its call of Header()
Response(status, wrote, set, body) ==
    [status |-> status, wrote |-> wrote, set |-> set, body |-> body]

RespondWithError(httpStatus, message) ==
    Response(httpStatus, httpStatus, ContentType("application/json"), ErrorBody(message))
HttpError(message, code) ==
    Response(code, code,
             ContentType("text/plain; charset=utf-8") @@ ("X-Content-Type-Options" :> "nosniff"),
             ErrorBody(message))
\* w.Header().Set("Content-Type", ...) then Encode: net/http sends the status line
\* 200 itself on the first Write, the handler's writer is not asked
Encode(body) == Response(200, 0, ContentType("application/json"), body)

NoRequest == Request("", <<>>, <<>>, <<>>)
NoResponse == Response(0, 0, NoHeaders, Body("", 0, 0, 0, ""))

\* headers are the response headers set before the handler's call of Header(),
\* which are the ones ResponseCapture.Header copies
IdleRequest ==
    [pc |-> "idle", req |-> NoRequest, key |-> <<>>, capture |-> FALSE, hit |-> FALSE,
     headers |-> NoHeaders, resp |-> NoResponse, uid |-> 0, name |-> "", created |-> {},
     after |-> 0, startAt |-> 0]

----------------------------------------------------------------------------
(* The idempotency cache *)

NoEntries == [k \in {} |-> 0]

Remove(c, keys) == [k \in (DOMAIN c) \ keys |-> c[k]]

\* sha256 over method, path, body and Idempotency-Key written one after the other;
\* the digest is taken to be injective on what was written
\* a fingerprint that leaves the body out
createRequestKeyWithoutBody(req) == <<req.method>> \o req.path \o req.token

createRequestKey(req) == <<req.method>> \o req.path \o req.body \o req.token

\* an expiry that uses the cleanup age
ExpiredAfterCleanupAge(entry, t) == t - entry.Timestamp > CleanupHours

\* an expiry that never comes
NeverExpired(entry, t) == t < entry.Timestamp

Expired(entry, t) == t - entry.Timestamp > TTLHours

\* getCachedResponse: whether key is found, and the cache it leaves
Found(c, key, t) == key \in DOMAIN c /\ ~Expired(c[key], t)
AfterLookup(c, key, t) ==
    IF key \in DOMAIN c /\ Expired(c[key], t) THEN Remove(c, {key}) ELSE c

\* a cleanup that removes the entries older than the 24 hours of the expiry
cleanupExpiredEntries(c, t) ==
    Remove(c, {k \in DOMAIN c : c[k].Timestamp < t - TTLHours})

cleanupOldEntries(c, t) ==
    Remove(c, {k \in DOMAIN c : c[k].Timestamp < t - CleanupHours})

cacheResponse(c, key, entry, t) ==
    LET put == [k \in (DOMAIN c) \cup {key} |-> IF k = key THEN entry ELSE c[k]]
    IN  IF Cardinality(DOMAIN put) > CacheLimit THEN cleanupOldEntries(put, t) ELSE put

\* a test that lets every recorded status code pass
AnyStatusCode(statusCode) == statusCode >= 0

\* the 2xx test of the middleware on the status code ResponseCapture recorded
Successful(statusCode) == statusCode >= 200 /\ statusCode < 300

\* the cached response written back: the captured headers, status code and body;
\* without a captured Content-Type net/http detects one from the body
Replay(entry) ==
    Response(entry.StatusCode, entry.StatusCode,
             IF "Content-Type" \in DOMAIN entry.Headers
                 THEN entry.Headers
                 ELSE Merge(entry.Headers, ContentType("text/plain; charset=utf-8")),
             entry.Response)

----------------------------------------------------------------------------
(* IdempotencyMiddleware and the handlers behind it *)

InFlight == {r \in Calls : http[r].pc # "idle"}

\* requests are numbered in the order in which they arrive
Arrives(r) ==
    /\ http[r].pc = "idle"
    /\ \A d \in Calls : d < r => http[d].pc # "idle"
    /\ Len(served) + Cardinality(InFlight) < MaxRequests

SetRequest(r, h) == http' = [http EXCEPT ![r] = h]

\* the handler has written its response and returned
Written(h, resp) == [h EXCEPT !.pc = "written", !.resp = resp]

\* a test that passes on the requests that are not POSTs only
NotPost(req) == req.method # "POST"

\* the requests the middleware hands to the next handler as they are: those that
\* are not POSTs and those without an Idempotency-Key
PassedThrough(req) == req.method # "POST" \/ req.token = <<>>

\* the middleware up to next.ServeHTTP, or to its return of a cached response
IdempotencyMiddleware(r, req) ==
    LET h == [IdleRequest EXCEPT
                  !.req = req, !.after = Len(served), !.startAt = now,
                  !.headers = RequestIDHeader(Len(served) + Cardinality(InFlight) + 1)]
        next == [h EXCEPT !.pc = "handler", !.headers = Merge(@, CorsHeaders)]
        requestKey == createRequestKey(req)
    IN
    /\ Arrives(r)
    /\ IF PassedThrough(req)
           THEN /\ SetRequest(r, next)
                /\ UNCHANGED cache
           ELSE IF Found(cache, requestKey, now)
               THEN /\ SetRequest(r, Written([h EXCEPT !.key = requestKey, !.hit = TRUE],
                                             Replay(cache[requestKey])))
                    /\ UNCHANGED cache
               ELSE /\ SetRequest(r, [next EXCEPT !.key = requestKey, !.capture = TRUE])
                    /\ cache' = AfterLookup(cache, requestKey, now)
    /\ UNCHANGED <<engineVars, userVars, served, now, ticks>>

\* a test that finds no name empty
NoNameEmpty(name) == FALSE

\* req.Name == "" in UserHandler.CreateUser, and name == "" in UserService.CreateUser
EmptyName(name) == name = ""

\* UserHandler.CreateUser and UserService.CreateUser up to UserRepo.CreateUser
HandlerCreateUser(r) ==
    LET h == http[r]
        name == Decode(h.req.body, "name:", "")
        id == nextId
    IN
    /\ h.pc = "handler"
    /\ Route(h.req) = "/users"
    /\ \/ /\ ~ValidJson(h.req.body)
          /\ SetRequest(r, Written(h, RespondWithError(400, "Invalid request format")))
          /\ UNCHANGED <<users, nextId, faults>>
       \/ /\ ValidJson(h.req.body)
          /\ EmptyName(name)
          /\ SetRequest(r, Written(h, RespondWithError(400, "Name is required")))
          /\ UNCHANGED <<users, nextId, faults>>
       \/ /\ ValidJson(h.req.body)
          /\ ~EmptyName(name)
          /\ users' = [u \in (DOMAIN users) \cup {id} |-> IF u = id THEN name ELSE users[u]]
          /\ nextId' = nextId + 1
          /\ SetRequest(r, [h EXCEPT !.pc = "wallet", !.uid = id, !.name = name,
                                     !.created = @ \cup {id}])
          /\ UNCHANGED faults
       \/ /\ ValidJson(h.req.body)
          /\ ~EmptyName(name)
          /\ CanFail
          /\ Fault
          /\ nextId' = nextId + 1
          /\ SetRequest(r, Written(h, RespondWithError(500, "Failed to create user")))
          /\ UNCHANGED users
    /\ UNCHANGED <<wallets, ledger, lock, call, nextRef, txClock, owner, served, cache, now,
                 ticks>>

\* a create-user that takes its users row back when the wallet insert fails
UsersWithoutCreated(h) == [u \in (DOMAIN users) \ {h.uid} |-> users[u]]

\* the users rows after UserService.CreateUser returned the wallet insert's error:
\* the two inserts share no transaction, and the service deletes nothing
UsersAfterWalletError(h) == users

\* WalletRepository.CreateWallet, then the rest of UserService.CreateUser and of the handler
CreateWallet(r) ==
    LET h == http[r]
        id == nextId
    IN
    /\ h.pc = "wallet"
    /\ nextId' = nextId + 1
    /\ \/ /\ wallets' = [w \in (DOMAIN wallets) \cup {id} |-> IF w = id THEN 0 ELSE wallets[w]]
          /\ owner' = [w \in (DOMAIN owner) \cup {id} |-> IF w = id THEN h.uid ELSE owner[w]]
          /\ lock' = [w \in (DOMAIN lock) \cup {id} |-> IF w = id THEN NoCall ELSE lock[w]]
          /\ SetRequest(r, [Written(h, Response(201, 201, ContentType("application/json"),
                                                UserBody(h.uid, h.name, id)))
                               EXCEPT !.created = @ \cup {id}])
          /\ UNCHANGED <<users, faults>>
       \/ /\ CanFail
          /\ Fault
          /\ users' = UsersAfterWalletError(h)
          /\ SetRequest(r, Written(h, RespondWithError(500, "Failed to create user")))
          /\ UNCHANGED <<wallets, owner, lock>>
    /\ UNCHANGED <<ledger, call, nextRef, txClock, served, cache, now, ticks>>

\* WalletHandler.Deposit up to the return of WalletService.Deposit's first step
HandlerDeposit(r) ==
    LET h == http[r]
        walletIDStr == h.req.path[2]
        amount == NewFromFloat(Decode(h.req.body, "amount:", "0"))
    IN
    /\ h.pc = "handler"
    /\ Route(h.req) = "/deposit"
    /\ IF ~ValidId(walletIDStr)
           THEN /\ SetRequest(r, Written(h, RespondWithError(400, "Invalid wallet ID")))
                /\ UNCHANGED engineVars
           ELSE IF ~ValidJson(h.req.body)
               THEN /\ SetRequest(r, Written(h, RespondWithError(400, "Invalid request format")))
                    /\ UNCHANGED engineVars
               ELSE /\ DepositCall(r, ParseId(walletIDStr), amount)
                    /\ SetRequest(r, [h EXCEPT !.pc = "engine"])
    /\ UNCHANGED <<userVars, served, cache, now, ticks>>

HandlerWithdraw(r) ==
    LET h == http[r]
        walletIDStr == h.req.path[2]
        amount == NewFromFloat(Decode(h.req.body, "amount:", "0"))
    IN
    /\ h.pc = "handler"
    /\ Route(h.req) = "/withdraw"
    /\ IF ~ValidId(walletIDStr)
           THEN /\ SetRequest(r, Written(h, RespondWithError(400, "Invalid wallet ID")))
                /\ UNCHANGED engineVars
           ELSE IF ~ValidJson(h.req.body)
               THEN /\ SetRequest(r, Written(h, RespondWithError(400, "Invalid request format")))
                    /\ UNCHANGED engineVars
               ELSE /\ WithdrawCall(r, ParseId(walletIDStr), amount)
                    /\ SetRequest(r, [h EXCEPT !.pc = "engine"])
    /\ UNCHANGED <<userVars, served, cache, now, ticks>>

HandlerTransfer(r) ==
    LET h == http[r]
        fromWalletIDStr == h.req.path[2]
        toWalletIDStr == Decode(h.req.body, "to_wallet_id:", "")
        amount == NewFromFloat(Decode(h.req.body, "amount:", "0"))
        description == Decode(h.req.body, "description:", "")
    IN
    /\ h.pc = "handler"
    /\ Route(h.req) = "/transfer"
    /\ IF ~ValidId(fromWalletIDStr)
           THEN /\ SetRequest(r, Written(h, HttpError("Invalid source wallet ID", 400)))
                /\ UNCHANGED engineVars
           ELSE IF ~ValidJson(h.req.body)
               THEN /\ SetRequest(r, Written(h, HttpError("Invalid request", 400)))
                    /\ UNCHANGED engineVars
               ELSE IF ~ValidId(toWalletIDStr)
                   THEN /\ SetRequest(r, Written(h, HttpError("Invalid destination wallet ID", 400)))
                        /\ UNCHANGED engineVars
                   ELSE /\ TransferCall(r, ParseId(fromWalletIDStr), ParseId(toWalletIDStr),
                                        amount, description)
                        /\ SetRequest(r, [h EXCEPT !.pc = "engine"])
    /\ UNCHANGED <<userVars, served, cache, now, ticks>>

\* WalletHandler.GetBalance with WalletService.GetBalance
HandlerGetBalance(r) ==
    LET h == http[r]
        walletIDStr == h.req.path[2]
    IN
    /\ h.pc = "handler"
    /\ Route(h.req) = "/balance"
    /\ \/ /\ ~ValidId(walletIDStr)
          /\ SetRequest(r, Written(h, HttpError("Invalid wallet ID", 400)))
          /\ UNCHANGED faults
       \/ /\ ValidId(walletIDStr)
          /\ ParseId(walletIDStr) \in DOMAIN wallets
          /\ SetRequest(r, Written(h, Encode(WalletBody(ParseId(walletIDStr),
                                                        wallets[ParseId(walletIDStr)]))))
          /\ UNCHANGED faults
       \/ /\ ValidId(walletIDStr)
          /\ ParseId(walletIDStr) \notin DOMAIN wallets
          /\ SetRequest(r, Written(h, HttpError("failed to get wallet: wallet not found", 404)))
          /\ UNCHANGED faults
       \/ /\ ValidId(walletIDStr)
          /\ CanFail
          /\ Fault
          /\ SetRequest(r, Written(h, HttpError("failed to get wallet", 404)))
    /\ UNCHANGED <<wallets, ledger, lock, call, nextRef, txClock, userVars, served, cache,
                   now, ticks>>

\* what a wallet handler writes once the engine call has returned
WalletResponse(c) ==
    IF c.op = "transfer"
        THEN IF c.res = "ok"
                 THEN Encode(MessageBody("Transfer completed successfully"))
                 ELSE HttpError(c.res, 400)
        ELSE IF c.res = "ok"
                 THEN Encode(WalletBody(c.from, c.out[1]))
                 ELSE RespondWithError(400, c.res)

\* the handler's last writes, and the middleware after next.ServeHTTP has returned
IdempotencyReturn(r) ==
    LET h == http[r]
        resp == IF h.pc = "engine" THEN WalletResponse(call[r]) ELSE h.resp
        entry == [Response |-> resp.body, StatusCode |-> resp.wrote, Headers |-> h.headers,
                  Timestamp |-> now]
    IN
    /\ h.pc = "written" \/ (h.pc = "engine" /\ call[r].pc = "done")
    /\ IF h.capture /\ Successful(resp.wrote)
           THEN cache' = cacheResponse(cache, h.key, entry, now)
           ELSE UNCHANGED cache
    /\ served' = Append(served, [req |-> h.req, status |-> resp.status,
                                 headers |-> Merge(h.headers, resp.set),
                                 body |-> resp.body, hit |-> h.hit,
                                 stored |-> h.capture /\ Successful(resp.wrote),
                                 created |-> h.created,
                                 after |-> h.after, startAt |-> h.startAt, at |-> now])
    /\ SetRequest(r, [h EXCEPT !.pc = "done", !.resp = resp])
    /\ UNCHANGED <<engineVars, userVars, now, ticks>>

\* net/http ends the request's context once the handler chain has returned, and
\* database/sql rolls back a transaction begun with that context and left open
RequestCtxDone(r) ==
    /\ http[r].pc = "done"
    /\ SetRequest(r, IdleRequest)
    /\ Put(r, IdleCall, lock)
    /\ UNCHANGED <<wallets, ledger, faults, nextRef, txClock, userVars, served, cache, now,
                 ticks>>

Tick(d) ==
    /\ ticks < MaxTicks
    /\ ticks' = ticks + 1
    /\ now' = now + d
    /\ UNCHANGED <<engineVars, userVars, http, served, cache>>

----------------------------------------------------------------------------
(* getCachedResponse and cacheResponse statement by statement, under
   globalCache.mutex. A worker is the goroutine of one request. *)

IdleWorker == [pc |-> "idle", key |-> <<>>, found |-> FALSE]

\* the fingerprints the workers look up and record
WorkerKeys == {createRequestKey(Request("POST", UsersPath, CreateJson(n), Keyed)) : n \in {"a", "b"}}

\* the record of a 201 response, made at time t
StoredEntry(t) ==
    [Response |-> UserBody(0, "a", 0), StatusCode |-> 201, Headers |-> CorsHeaders,
     Timestamp |-> t]

SetWorker(w, pc, key, found) ==
    worker' = [worker EXCEPT ![w] = [pc |-> pc, key |-> key, found |-> found]]

\* globalCache.mutex.RLock(): waits while a worker holds the mutex exclusively
RLock(w, k) ==
    /\ ~fatal
    /\ worker[w].pc = "idle"
    /\ mutex.writer = {}
    /\ mutex' = [mutex EXCEPT !.readers = @ \cup {w}]
    /\ SetWorker(w, "read", k, FALSE)
    /\ UNCHANGED <<cache, fatal>>

\* entry, found := globalCache.cache[key], and the test of the entry's age
LookupRead(w) ==
    LET key == worker[w].key IN
    /\ ~fatal
    /\ worker[w].pc = "read"
    /\ IF key \notin DOMAIN cache
           THEN SetWorker(w, "runlock", key, FALSE)
           ELSE IF Expired(cache[key], now)
               THEN SetWorker(w, "delete", key, FALSE)
               ELSE SetWorker(w, "runlock", key, TRUE)
    /\ UNCHANGED <<cache, mutex, fatal>>

\* another worker is between its RLock and its last access to the map
OtherAccessPending(w) ==
    \E v \in mutex.readers \ {w} : worker[v].pc \in {"read", "delete"}

\* delete(globalCache.cache, key) of the expired entry; a map write that runs
\* together with another access to the map is a data race, which the runtime may
\* detect and end with a fatal error
LookupDelete(w) ==
    /\ ~fatal
    /\ worker[w].pc = "delete"
    /\ cache' = Remove(cache, {worker[w].key})
    /\ SetWorker(w, "runlock", worker[w].key, FALSE)
    /\ fatal' \in (IF OtherAccessPending(w) THEN {TRUE, FALSE} ELSE {FALSE})
    /\ UNCHANGED mutex

\* the deferred globalCache.mutex.RUnlock(), and the return
RUnlock(w) ==
    /\ ~fatal
    /\ worker[w].pc = "runlock"
    /\ mutex' = [mutex EXCEPT !.readers = @ \ {w}]
    /\ worker' = [worker EXCEPT ![w] = IdleWorker]
    /\ UNCHANGED <<cache, fatal>>

\* globalCache.mutex.Lock(): waits while any worker holds the mutex
Lock(w, k) ==
    /\ ~fatal
    /\ worker[w].pc = "idle"
    /\ mutex.writer = {}
    /\ mutex.readers = {}
    /\ mutex' = [mutex EXCEPT !.writer = {w}]
    /\ SetWorker(w, "insert", k, FALSE)
    /\ UNCHANGED <<cache, fatal>>

\* globalCache.cache[key] = entry, and the cleanup when the map has grown too large
StoreInsert(w) ==
    /\ ~fatal
    /\ worker[w].pc = "insert"
    /\ cache' = cacheResponse(cache, worker[w].key, StoredEntry(now), now)
    /\ SetWorker(w, "unlock", worker[w].key, FALSE)
    /\ UNCHANGED <<mutex, fatal>>

\* the deferred globalCache.mutex.Unlock(), and the return
Unlock(w) ==
    /\ ~fatal
    /\ worker[w].pc = "unlock"
    /\ mutex' = [mutex EXCEPT !.writer = {}]
    /\ worker' = [worker EXCEPT ![w] = IdleWorker]
    /\ UNCHANGED <<cache, fatal>>

\* a step of a worker leaves the store and the requests as they are
NoRequestStep == UNCHANGED <<engineVars, userVars, http, served, now, ticks>>

----------------------------------------------------------------------------
(* The engine under concurrent callers *)

\* the entry of the Deposit(1, 1.00) that funded wallet 1
InitialLedger == <<Entry(1, "deposit", InitialBalance(1), Null, Null, 0)>>

Init ==
    /\ wallets = [w \in InitialWallets |-> InitialBalance(w)]
    /\ ledger = InitialLedger
    /\ lock = [w \in InitialWallets |-> NoCall]
    /\ call = [c \in Calls |-> IdleCall]
    /\ faults = 0
    /\ nextRef = 1
    /\ txClock = 0
    /\ users = [u \in InitialUsers |-> "a"]
    /\ owner = [w \in InitialWallets |-> InitialOwner(w)]
    /\ nextId = 6
    /\ http = [r \in Calls |-> IdleRequest]
    /\ served = <<>>
    /\ cache = NoEntries
    /\ now = 0
    /\ ticks = 0
    /\ mutex = [readers |-> {}, writer |-> {}]
    /\ worker = [w \in Calls |-> IdleWorker]
    /\ fatal = FALSE

\* calls are numbered in the order in which they are made
InOrder(c) == \A d \in Calls : d < c => call[d].pc # "idle"

Deposit ==
    \E c \in Calls, w \in WalletIds, a \in Amounts : InOrder(c) /\ DepositCall(c, w, a)

Withdraw ==
    \E c \in Calls, w \in WalletIds, a \in Amounts : InOrder(c) /\ WithdrawCall(c, w, a)

Transfer ==
    \E c \in Calls, f \in WalletIds, t \in WalletIds, a \in Amounts, d \in Descriptions :
        InOrder(c) /\ TransferCall(c, f, t, a, d)

Step(c) ==
    \/ DepositGet(c)
    \/ DepositUpdate(c)
    \/ DepositInsert(c)
    \/ DepositCommit(c)
    \/ WithdrawGet(c)
    \/ WithdrawUpdate(c)
    \/ WithdrawInsert(c)
    \/ WithdrawCommit(c)
    \/ TransferLockFrom(c)
    \/ TransferLockTo(c)
    \/ TransferUpdateFrom(c)
    \/ TransferUpdateTo(c)
    \/ TransferInsertOut(c)
    \/ TransferInsertIn(c)
    \/ TransferCommit(c)

\* a step of the engine and of the store leaves the HTTP layer as it is
NoHttp == UNCHANGED <<userVars, httpVars>>

Next ==
    \/ Deposit /\ NoHttp
    \/ Withdraw /\ NoHttp
    \/ Transfer /\ NoHttp
    \/ \E c \in Calls : DepositGet(c) /\ NoHttp
    \/ \E c \in Calls : DepositUpdate(c) /\ NoHttp
    \/ \E c \in Calls : DepositInsert(c) /\ NoHttp
    \/ \E c \in Calls : DepositCommit(c) /\ NoHttp
    \/ \E c \in Calls : WithdrawGet(c) /\ NoHttp
    \/ \E c \in Calls : WithdrawUpdate(c) /\ NoHttp
    \/ \E c \in Calls : WithdrawInsert(c) /\ NoHttp
    \/ \E c \in Calls : WithdrawCommit(c) /\ NoHttp
    \/ \E c \in Calls : TransferLockFrom(c) /\ NoHttp
    \/ \E c \in Calls : TransferLockTo(c) /\ NoHttp
    \/ \E c \in Calls : TransferUpdateFrom(c) /\ NoHttp
    \/ \E c \in Calls : TransferUpdateTo(c) /\ NoHttp
    \/ \E c \in Calls : TransferInsertOut(c) /\ NoHttp
    \/ \E c \in Calls : TransferInsertIn(c) /\ NoHttp
    \/ \E c \in Calls : TransferCommit(c) /\ NoHttp
    \/ \E c \in Calls : DeadlockAbort(c) /\ NoHttp
    \/ \E c \in Calls : CtxDone(c) /\ NoHttp

Spec == Init /\ [][Next]_vars

\* the service behind its router: every engine call is made by a handler
\* a step of a whole request leaves the workers of the finer-grained cache as they are
NoWorker == UNCHANGED mutexVars

NextHttp ==
    \/ \E r \in Calls, req \in HttpRequests : IdempotencyMiddleware(r, req) /\ NoWorker
    \/ \E r \in Calls : HandlerCreateUser(r) /\ NoWorker
    \/ \E r \in Calls : CreateWallet(r) /\ NoWorker
    \/ \E r \in Calls : HandlerDeposit(r) /\ NoWorker
    \/ \E r \in Calls : HandlerWithdraw(r) /\ NoWorker
    \/ \E r \in Calls : HandlerTransfer(r) /\ NoWorker
    \/ \E r \in Calls : HandlerGetBalance(r) /\ NoWorker
    \/ \E r \in Calls : IdempotencyReturn(r) /\ NoWorker
    \/ \E r \in Calls : RequestCtxDone(r) /\ NoWorker
    \/ \E d \in TickHours : Tick(d) /\ NoWorker
    \/ \E c \in Calls : DepositGet(c) /\ NoHttp
    \/ \E c \in Calls : DepositUpdate(c) /\ NoHttp
    \/ \E c \in Calls : DepositInsert(c) /\ NoHttp
    \/ \E c \in Calls : DepositCommit(c) /\ NoHttp
    \/ \E c \in Calls : WithdrawGet(c) /\ NoHttp
    \/ \E c \in Calls : WithdrawUpdate(c) /\ NoHttp
    \/ \E c \in Calls : WithdrawInsert(c) /\ NoHttp
    \/ \E c \in Calls : WithdrawCommit(c) /\ NoHttp
    \/ \E c \in Calls : TransferLockFrom(c) /\ NoHttp
    \/ \E c \in Calls : TransferLockTo(c) /\ NoHttp
    \/ \E c \in Calls : TransferUpdateFrom(c) /\ NoHttp
    \/ \E c \in Calls : TransferUpdateTo(c) /\ NoHttp
    \/ \E c \in Calls : TransferInsertOut(c) /\ NoHttp
    \/ \E c \in Calls : TransferInsertIn(c) /\ NoHttp
    \/ \E c \in Calls : TransferCommit(c) /\ NoHttp
    \/ \E c \in Calls : DeadlockAbort(c) /\ NoHttp

SpecHttp == Init /\ [][NextHttp]_vars

NextCache ==
    \/ \E w \in Calls, k \in WorkerKeys : RLock(w, k) /\ NoRequestStep
    \/ \E w \in Calls : LookupRead(w) /\ NoRequestStep
    \/ \E w \in Calls : LookupDelete(w) /\ NoRequestStep
    \/ \E w \in Calls : RUnlock(w) /\ NoRequestStep
    \/ \E w \in Calls, k \in WorkerKeys : Lock(w, k) /\ NoRequestStep
    \/ \E w \in Calls : StoreInsert(w) /\ NoRequestStep
    \/ \E w \in Calls : Unlock(w) /\ NoRequestStep
    \/ \E d \in TickHours : Tick(d) /\ NoWorker

\* the cache under concurrent workers
SpecCache == Init /\ [][NextCache]_vars

\* a step of call c in which the store does what the statement asks
Served(c) == Step(c) /\ UNCHANGED faults /\ NoHttp

\* the store answers every statement it can serve and every started call keeps
\* running; nothing obliges a caller to end its context, or the store to fail
FairSpec ==
    /\ Spec
    /\ \A c \in Calls : WF_vars(Served(c)) /\ WF_vars(DeadlockAbort(c) /\ NoHttp)

----------------------------------------------------------------------------
(* Properties of the ledger engine *)

RECURSIVE SumAmounts(_, _, _)
SumAmounts(es, w, types) ==
    IF es = <<>> THEN 0
    ELSE (IF Head(es).wallet = w /\ Head(es).type \in types THEN Head(es).amount ELSE 0)
         + SumAmounts(Tail(es), w, types)

Credits(w) == SumAmounts(ledger, w, {"deposit", "transfer_in"})
Debits(w) == SumAmounts(ledger, w, {"withdraw", "transfer_out"})

EntriesOf(w) == SelectSeq(ledger, LAMBDA e : e.wallet = w)

HoldsLock(c) == \E w \in DOMAIN lock : lock[w] = {c}

ValidationErrors ==
    {"deposit amount must be positive", "withdraw amount must be positive",
     "transfer amount must be positive"}

\* C1: in every committed state each wallet's balance is the sum of its deposit and
\* transfer_in entries minus the sum of its withdraw and transfer_out entries
C1_BalanceIsLedgerSum ==
    \A w \in DOMAIN wallets : wallets[w] = Credits(w) - Debits(w)

\* C2: every committed balance is >= 0, and the debits committed on a wallet never
\* exceed together what the wallet received (two debits whose amounts together
\* exceed the balance never both commit)
C2_NoOverdraw ==
    \A w \in DOMAIN wallets : wallets[w] >= 0 /\ Debits(w) <= Credits(w)

\* every call is a Deposit(w, 1) that has returned successfully
AllDepositedOne(w) ==
    \A c \in Calls :
        /\ call[c].pc = "done"
        /\ call[c].op = "deposit"
        /\ call[c].from = w
        /\ call[c].amount = One
        /\ call[c].res = "ok"

\* C3: when NCalls concurrent Deposit(W, 1) calls on the same wallet, starting at
\* balance 0, have all returned successfully, W's committed balance is NCalls and W
\* has exactly NCalls entries, all deposits
C3_NoLostDeposit ==
    \A w \in DOMAIN wallets :
        (InitialBalance(w) = 0 /\ AllDepositedOne(w)) =>
            /\ wallets[w] = NCalls * One
            /\ Len(EntriesOf(w)) = NCalls
            /\ \A i \in 1..Len(EntriesOf(w)) :
                   EntriesOf(w)[i].type = "deposit" /\ EntriesOf(w)[i].amount = One

C3_Witness == \E w \in DOMAIN wallets : InitialBalance(w) = 0 /\ AllDepositedOne(w)

\* C6: a call that returned an error after its store transaction was begun has that
\* transaction rolled back and holds no wallet row lock
C6_RolledBackOnError ==
    \A c \in Calls :
        (call[c].pc = "done" /\ call[c].res # "ok" /\ call[c].tx # "none") =>
            (call[c].tx = "closed" /\ ~HoldsLock(c))

\* C7: no state is reached in which transfers hold one wallet's row lock each and
\* wait for each other's
C7_NoCircularWait == \A c \in Calls : ~Deadlocked(c)

C9_NoWriteForNonPositive ==
    [][\A c \in Calls :
          (call'[c] # call[c] /\ call'[c].amount <= 0) =>
              /\ wallets' = wallets
              /\ ledger' = ledger
              /\ call'[c].wr = <<>>
              /\ call'[c].pend = <<>>]_vars

C9_Witness ==
    \E c \in Calls :
        /\ call[c].pc = "done"
        /\ call[c].op = "withdraw"
        /\ call[c].amount <= 0
        /\ call[c].res = "withdraw amount must be positive"

\* C10: a call with amount <= 0 that has returned has returned the amount-validation error
C10_NonPositiveIsInvalidAmount ==
    \A c \in Calls :
        (call[c].pc = "done" /\ call[c].amount <= 0) => call[c].res \in ValidationErrors

InsufficientErrors == {"insufficient balance for withdrawal", "insufficient balance"}

\* call c is a Withdraw at its locked read, or a Transfer between two different
\* wallets at its second locked read, the wallets exist, the read is not kept
\* waiting, and the amount is positive and above the source wallet's balance
DebitAboveBalance(c) ==
    LET r == call[c] IN
    /\ r.amount > 0
    /\ r.from \in DOMAIN wallets
    /\ wallets[r.from] < r.amount
    /\ \/ r.op = "withdraw" /\ r.pc = "get" /\ RowLockFree(c, r.from)
       \/ /\ r.op = "transfer"
          /\ r.pc = "lockTo"
          /\ r.to \in DOMAIN wallets
          /\ RowLockFree(c, r.to)

\* C11: when the store answers the locked read of such a call, the call returns the
\* insufficient-balance error, no committed balance changes, no entry is appended,
\* and the call has issued no balance write and no entry insert
C11_InsufficientBalanceNoWrite ==
    [][\A c \in Calls :
          (DebitAboveBalance(c) /\ call'[c] # call[c] /\ faults' = faults) =>
              /\ call'[c].pc = "done"
              /\ call'[c].res \in InsufficientErrors
              /\ wallets' = wallets
              /\ ledger' = ledger
              /\ call'[c].wr = <<>>
              /\ call'[c].pend = <<>>]_vars

C11_Witness ==
    /\ \E c \in Calls :
           /\ call[c].pc = "done"
           /\ call[c].op = "withdraw"
           /\ call[c].from \in DOMAIN wallets
           /\ call[c].amount > wallets[call[c].from]
           /\ call[c].res = "insufficient balance for withdrawal"
    /\ \E c \in Calls :
           /\ call[c].pc = "done"
           /\ call[c].op = "transfer"
           /\ call[c].from \in DOMAIN wallets
           /\ call[c].amount > wallets[call[c].from]
           /\ call[c].res = "insufficient balance"

\* C12: a Transfer from a wallet to the same wallet that has returned has returned
\* the same-wallet error, whatever its amount and the balances
C12_SameWalletAlwaysRejected ==
    \A c \in Calls :
        (call[c].pc = "done" /\ call[c].op = "transfer" /\ call[c].from = call[c].to) =>
            call[c].res = "cannot transfer to the same wallet"

\* the positions of the entries of es that carry reference_id ref
Carrying(es, ref) == {i \in 1..Len(es) : es[i].ref = ref}

\* a transfer_out entry and a transfer_in entry on a different wallet, with the same
\* reference_id, amount and description
TransferPair(out, in) ==
    /\ out.type = "transfer_out"
    /\ in.type = "transfer_in"
    /\ out.wallet # in.wallet
    /\ out.ref # Null
    /\ out.ref = in.ref
    /\ out.amount = in.amount
    /\ out.desc = in.desc

\* every reference_id of the ledger is carried by exactly the two entries of one pair
PairedReferences ==
    \A i \in 1..Len(ledger) :
        ledger[i].ref # Null =>
            \E j, k \in 1..Len(ledger) :
                /\ Carrying(ledger, ledger[i].ref) = {j, k}
                /\ TransferPair(ledger[j], ledger[k])

\* a Transfer that returns successfully appends exactly one pair, on its source and
\* destination wallets, under a reference_id the ledger did not hold
TransferAddsPair ==
    \A c \in Calls :
        (call[c].op = "transfer" /\ call[c].pc # "done"
         /\ call'[c].pc = "done" /\ call'[c].res = "ok") =>
            \E out, in \in [wallet : WalletIds, type : TransactionTypes,
                            amount : {Numeric2(call[c].amount)},
                            ref : {Some(n) : n \in 1..nextRef}, desc : {call[c].desc},
                            created_at : {call[c].began}] :
                /\ ledger' = ledger \o <<out, in>>
                /\ TransferPair(out, in)
                /\ out.wallet = call[c].from
                /\ in.wallet = call[c].to
                /\ Carrying(ledger, out.ref) = {}

C14_TransferMovesAmount ==
    [][\A c \in Calls :
          (call[c].op = "transfer" /\ call[c].pc # "done"
           /\ call'[c].pc = "done" /\ call'[c].res = "ok") =>
              /\ wallets'[call[c].from] = wallets[call[c].from] - call[c].amount
              /\ wallets'[call[c].to] = wallets[call[c].to] + call[c].amount
              /\ \A w \in DOMAIN wallets :
                     w \notin {call[c].from, call[c].to} => wallets'[w] = wallets[w]]_vars

\* the transaction of call r holds every balance write and every entry of its
\* operation: one write and one entry on the wallet of a Deposit or Withdraw, two
\* writes and the pair of entries of a Transfer
WritesComplete(r) ==
    IF r.op = "transfer"
        THEN /\ Len(r.wr) = 2
             /\ r.wr[1].wallet = r.from
             /\ r.wr[2].wallet = r.to
             /\ Len(r.pend) = 2
             /\ TransferPair(r.pend[1], r.pend[2])
             /\ r.pend[1].wallet = r.from
             /\ r.pend[2].wallet = r.to
        ELSE /\ Len(r.wr) = 1
             /\ r.wr[1].wallet = r.from
             /\ Len(r.pend) = 1
             /\ r.pend[1].wallet = r.from
             /\ r.pend[1].type = r.op

\* C15: the committed balances and entries, which are what survives a crash at any
\* point, change only in the step in which one call commits and returns
\* successfully, and then by all the balance writes and all the entries of that
\* call together; a call that stops before its commit changes neither
C15_CommittedAllOrNothing ==
    [][(wallets' # wallets \/ ledger' # ledger) =>
          \E c \in Calls :
              /\ call[c].pc = "commit"
              /\ call'[c].pc = "done"
              /\ call'[c].res = "ok"
              /\ WritesComplete(call[c])
              /\ wallets' = ApplyWrites(wallets, call[c].wr)
              /\ ledger' = ledger \o call[c].pend]_vars

\* a call failed at its entry insert, after its balance write, and the committed
\* state is the initial one
C15_Witness ==
    /\ \E c \in Calls :
           /\ call[c].pc = "done"
           /\ call[c].res \in {"failed to record transaction",
                                "failed to create inbound transaction"}
    /\ wallets = [w \in InitialWallets |-> InitialBalance(w)]
    /\ ledger = InitialLedger

----------------------------------------------------------------------------
(* Properties of the idempotency layer *)

IsDeposit(req) == req.method = "POST" /\ Route(req) = "/deposit"
IsCreateUser(req) == req.method = "POST" /\ Route(req) = "/users"

\* exchange j was issued after exchange i had been answered
InSequence(i, j) == i < j /\ served[j].after >= i

\* the same keyed request, answered as exchanges i and j, j issued after i
Repeated(i, j) ==
    /\ InSequence(i, j)
    /\ served[i].req = served[j].req
    /\ served[i].req.token # <<>>

\* C4: when a keyed POST deposit on a wallet without entries has been answered with
\* success and the same request, issued after it, has been answered too, and no
\* other request was made, the wallet's balance is the deposited amount and the
\* wallet has exactly one entry
C4_DuplicateDepositExecutesOnce ==
    (/\ Len(served) = 2
     /\ InFlight = {}
     /\ Repeated(1, 2)
     /\ IsDeposit(served[1].req)
     /\ served[1].status = 200) =>
        LET w == ParseId(served[1].req.path[2])
        IN  /\ wallets[w] = InitialBalance(w)
                              + NewFromFloat(Decode(served[1].req.body, "amount:", "0"))
            /\ Len(EntriesOf(w)) = Len(SelectSeq(InitialLedger, LAMBDA e : e.wallet = w)) + 1

\* exchange j answered as exchange i did, and made no row
SameAnswerNoEffect(i, j) ==
    /\ served[j].status = served[i].status
    /\ served[j].body.id = served[i].body.id
    /\ served[j].created = {}

\* a keyed POST create-user request was answered with 201, the same request was
\* issued after it and answered too, and no other request was made
CreateUserRepeated ==
    /\ Len(served) = 2
    /\ InFlight = {}
    /\ Repeated(1, 2)
    /\ IsCreateUser(served[1].req)
    /\ served[1].status = 201

C16_OnlySuccessCached ==
    /\ \A k \in DOMAIN cache : cache[k].StatusCode \in 200..299
    /\ \A j \in 1..Len(served) :
           served[j].hit =>
               /\ served[j].status \in 200..299
               /\ \E i \in 1..served[j].after :
                      /\ createRequestKey(served[i].req)
                             = createRequestKey(served[j].req)
                      /\ served[i].status \in 200..299

\* a keyed POST failed, and the same request issued after it was executed
C16_Witness ==
    /\ Len(served) = 2
    /\ Repeated(1, 2)
    /\ served[1].status = 500
    /\ ~served[2].hit
    /\ served[2].status = 201
    /\ served[2].created # {}

\* a request that is not a POST, or that carries no Idempotency-Key
Untracked(req) == req.method # "POST" \/ req.token = <<>>

\* C17: every step of a request that is not a POST or carries no Idempotency-Key
\* leaves the cache as it is; the request's first step hands it to its handler,
\* and it is never answered from the cache
C17_UntrackedBypassesCache ==
    [][\A r \in Calls :
          (http'[r] # http[r] /\ http'[r].pc # "idle" /\ Untracked(http'[r].req)) =>
              /\ cache' = cache
              /\ ~http'[r].hit
              /\ ~http'[r].capture
              /\ http[r].pc = "idle" => http'[r].pc = "handler"]_vars

\* the same POST without an Idempotency-Key was served twice and executed twice,
\* and the cache is empty
C17_Witness ==
    /\ Len(served) = 2
    /\ InSequence(1, 2)
    /\ served[1].req = served[2].req
    /\ served[1].req.method = "POST"
    /\ served[1].req.token = <<>>
    /\ served[1].created # {}
    /\ served[2].created # {}
    /\ served[1].created # served[2].created
    /\ ~served[2].hit
    /\ cache = NoEntries

\* the exchanges whose response was recorded under the fingerprint of exchange j
\* before exchange j arrived
Recorded(j) ==
    {i \in 1..served[j].after : served[i].stored /\ served[i].req = served[j].req}

\* the exchange whose response the cache held for exchange j: the last one recorded
Original(j) == CHOOSE i \in Recorded(j) : \A k \in Recorded(j) : k <= i

KeyReusedWithOtherBody(i, j) ==
    /\ InSequence(i, j)
    /\ served[i].stored
    /\ served[j].req.method = served[i].req.method
    /\ served[j].req.path = served[i].req.path
    /\ served[j].req.token = served[i].req.token
    /\ served[j].req.body # served[i].req.body

\* C19: a POST that reuses the Idempotency-Key of a recorded request with another
\* body, and whose own fingerprint has no record, is not answered from the cache
C19_OtherBodyIsMiss ==
    \A i, j \in 1..Len(served) :
        (KeyReusedWithOtherBody(i, j) /\ Recorded(j) = {}) => ~served[j].hit

\* the key of a recorded create-user request was reused with another name, and the
\* second request created a user of its own
C19_Witness ==
    /\ Len(served) = 2
    /\ KeyReusedWithOtherBody(1, 2)
    /\ ~served[2].hit
    /\ served[2].status = 201
    /\ served[2].created # {}
    /\ served[2].body.id # served[1].body.id

\* request r arrives in this step, as a POST with an Idempotency-Key, and the cache
\* holds a record under its fingerprint
ArrivesAtRecord(r) ==
    /\ http[r].pc = "idle"
    /\ http'[r].pc # "idle"
    /\ ~Untracked(http'[r].req)
    /\ createRequestKey(http'[r].req) \in DOMAIN cache

\* the age, on the arrival of request r, of the record under its fingerprint
RecordAge(r) == now - cache[createRequestKey(http'[r].req)].Timestamp

\* C20: a request that arrives when the record under its fingerprint is older than
\* 24 hours is not answered from the cache and is handed to its handler; one that
\* arrives when the record is younger than 24 hours is answered from the cache,
\* with the record's status code and body, and runs no handler
C20_ReplayedUntilExpiry ==
    [][\A r \in Calls :
          ArrivesAtRecord(r) =>
              /\ RecordAge(r) > 24 =>
                     (~http'[r].hit /\ http'[r].pc = "handler")
              /\ RecordAge(r) < 24 =>
                     /\ http'[r].hit
                     /\ http'[r].pc = "written"
                     /\ http'[r].resp.status
                            = cache[createRequestKey(http'[r].req)].StatusCode
                     /\ http'[r].resp.body
                            = cache[createRequestKey(http'[r].req)].Response]_vars

\* the same keyed create-user request was answered a first time and recorded, and a
\* second time, more than 24 hours later, by the handler
C20_Witness ==
    /\ Len(served) = 2
    /\ Repeated(1, 2)
    /\ served[1].stored
    /\ served[2].startAt - served[1].at > 24
    /\ ~served[2].hit
    /\ served[2].created # {}
    /\ served[2].status = 201

\* C21: the cache never holds more records than the size threshold
C21_CacheWithinThreshold == Cardinality(DOMAIN cache) <= CacheLimit

\* exchanges i and j are the same keyed POST, and the request of exchange j arrived
\* before exchange i was answered
Concurrent(i, j) ==
    /\ i < j
    /\ served[j].after < i
    /\ served[i].req = served[j].req
    /\ ~Untracked(served[i].req)

\* C22: of two exchanges of the same keyed POST that were handled concurrently and
\* both answered with success, at most one was handed to its handler; the other
\* was answered from the cache and made no row
C22_ConcurrentDuplicateRunsOnce ==
    \A i, j \in 1..Len(served) :
        (Concurrent(i, j) /\ served[i].status \in 200..299 /\ served[j].status \in 200..299) =>
            \/ served[i].hit /\ served[i].created = {}
            \/ served[j].hit /\ served[j].created = {}

\* the wallets of user u
WalletsOf(u) == {w \in DOMAIN owner : owner[w] = u}

\* C23: when no request is being handled, every user owns exactly one wallet
C23_OneWalletPerUser ==
    InFlight = {} => \A u \in DOMAIN users : Cardinality(WalletsOf(u)) = 1

\* the errors of BeginTx and of tx.Commit
InfrastructureErrors == {"failed to begin transaction", "failed to commit transaction"}

\* C24: an exchange whose Deposit, Withdraw or Transfer failed because the store
\* transaction could not be begun or committed is answered with a 5xx status
C24_InfrastructureErrorIs5xx ==
    \A j \in 1..Len(served) :
        (served[j].body.kind = "error" /\ served[j].body.text \in InfrastructureErrors) =>
            served[j].status \in 500..599

\* C25: the cache map changes only in a step of a worker that holds the mutex
\* exclusively, and while a worker holds it exclusively no worker holds it shared
C25_MutationUnderWriteLock ==
    [][/\ cache' # cache =>
              \E w \in Calls : mutex.writer = {w} /\ worker'[w] # worker[w]
       /\ mutex'.writer # {} => mutex'.readers = {}]_vars

\* C26: an exchange is answered from the cache only when a request with the same
\* method, path, body and Idempotency-Key was answered and recorded before it
\* arrived, so no request is answered with the response to a request that differs
\* from it in one of the four
C26_RecordOfSameRequestOnly ==
    \A j \in 1..Len(served) : served[j].hit => Recorded(j) # {}

----------------------------------------------------------------------------
(* Further properties of the engine *)

\* call c sends a balance write to the store in this step
WritesBalance(c) == Len(call'[c].wr) > Len(call[c].wr)

\* the balance write call c sends in this step
BalanceWrite(c) == call'[c].wr[Len(call'[c].wr)]

\* the balance the transaction of call c read under lock for the wallet it writes in
\* this step, and the amount the engine adds to it
LockedRead(c) == IF call[c].pc = "updTo" THEN call[c].rdTo ELSE call[c].rdFrom
Change(c) ==
    IF call[c].op = "deposit" \/ call[c].pc = "updTo"
        THEN call[c].amount
        ELSE 0 - call[c].amount

\* C27: a transaction that writes a wallet's balance holds that wallet's row lock,
\* taken by its locked read; the balance it read is still the committed one, and the
\* value written is that balance plus or minus the amount; a Transfer that writes
\* either balance holds the row locks of both wallets
C27_LockedReadBeforeWrite ==
    [][\A c \in Calls :
          WritesBalance(c) =>
              /\ call[c].tx = "open"
              /\ lock[BalanceWrite(c).wallet] = {c}
              /\ LockedRead(c) = wallets[BalanceWrite(c).wallet]
              /\ BalanceWrite(c).balance = Numeric2(LockedRead(c) + Change(c))
              /\ call[c].op = "transfer" =>
                     (lock[call[c].from] = {c} /\ lock[call[c].to] = {c})]_vars

\* a Transfer has written both balances under both row locks, while another call
\* waits in its locked read of one of the two wallets
C27_Witness ==
    \E c, d \in Calls :
        /\ call[c].op = "transfer"
        /\ Len(call[c].wr) = 2
        /\ lock[call[c].from] = {c}
        /\ lock[call[c].to] = {c}
        /\ Blocked(d)
        /\ Holder(d) = c

\* exchange i is a create-user whose users row was inserted and whose wallets row
\* was not
WalletInsertFailed(i) ==
    /\ IsCreateUser(served[i].req)
    /\ Cardinality(served[i].created) = 1

\* the user that exchange i inserted
UserOf(i) == CHOOSE u \in served[i].created : TRUE

\* C28: a create-user whose wallet insert failed after its user insert was answered
\* with an error, and its users row is there, with the name sent and without a
\* wallet; the same request, executed again after it with success, made another
\* user of that name, with a wallet
C28_OrphanUserStays ==
    \A i \in 1..Len(served) :
        WalletInsertFailed(i) =>
            /\ served[i].status = 500
            /\ served[i].body.kind = "error"
            /\ UserOf(i) \in DOMAIN users
            /\ users[UserOf(i)] = Decode(served[i].req.body, "name:", "")
            /\ WalletsOf(UserOf(i)) = {}
            /\ \A j \in 1..Len(served) :
                   (Repeated(i, j) /\ ~served[j].hit /\ served[j].status = 201) =>
                       /\ served[j].body.id # UserOf(i)
                       /\ served[j].body.id \in DOMAIN users
                       /\ users[served[j].body.id] = users[UserOf(i)]
                       /\ WalletsOf(served[j].body.id) = {served[j].body.wallet}

\* a keyed create-user failed at its wallet insert, the same request was sent again
\* and executed, and there are two users of the name, the first without a wallet
C28_Witness ==
    /\ Len(served) = 2
    /\ WalletInsertFailed(1)
    /\ Repeated(1, 2)
    /\ served[2].status = 201
    /\ served[2].body.id # UserOf(1)
    /\ {UserOf(1), served[2].body.id} \subseteq DOMAIN users
    /\ WalletsOf(UserOf(1)) = {}

\* the results that tell the caller that a wallet has no row
NotFoundErrors ==
    {"failed to get wallet: wallet not found",
     "failed to get source wallet: wallet not found",
     "failed to get destination wallet: wallet not found"}

\* record r is a call that names a wallet id without a row
NamesMissingWallet(r) ==
    /\ r.op # "none"
    /\ \/ r.from \notin DOMAIN wallets
       \/ r.op = "transfer" /\ r.to \notin DOMAIN wallets

\* record r is a call whose arguments meet its operation's preconditions
ValidArguments(r) == r.amount > 0 /\ (r.op = "transfer" => r.from # r.to)

\* C29: a call that names a wallet id without a row, with a positive amount and, for
\* a Transfer, two different wallet ids, returns a not-found error unless the store
\* failed; and no step of a call that names a wallet id without a row changes a
\* balance or the entries, or sends a balance write or an entry to the store: a
\* Transfer to a missing destination does not debit its source
C29_MissingWalletNotFound ==
    /\ [](\A c \in Calls :
             (/\ call[c].pc = "done"
              /\ NamesMissingWallet(call[c])
              /\ ValidArguments(call[c])
              /\ faults = 0) => call[c].res \in NotFoundErrors)
    /\ [][\A c \in Calls :
             (NamesMissingWallet(call'[c]) /\ call'[c] # call[c]) =>
                 /\ wallets' = wallets
                 /\ ledger' = ledger
                 /\ call'[c].wr = <<>>
                 /\ call'[c].pend = <<>>]_vars

\* a Transfer from a wallet with enough balance to a wallet id without a row has
\* returned the not-found error of the destination, and the source has its balance
C29_Witness ==
    \E c \in Calls :
        /\ call[c].pc = "done"
        /\ call[c].op = "transfer"
        /\ call[c].from \in DOMAIN wallets
        /\ call[c].to \notin DOMAIN wallets
        /\ call[c].amount > 0
        /\ call[c].amount <= wallets[call[c].from]
        /\ call[c].res = "failed to get destination wallet: wallet not found"
        /\ wallets[call[c].from] = InitialBalance(call[c].from)

\* call c is a Deposit or a Withdraw that returns successfully in this step
ReturnsOk(c) ==
    /\ call[c].op \in {"deposit", "withdraw"}
    /\ call[c].pc # "done"
    /\ call'[c].pc = "done"
    /\ call'[c].res = "ok"

\* C30: the step in which a Deposit(W, a) or a Withdraw(W, a) returns successfully
\* appends exactly one entry, on wallet W, of the operation's kind, with amount a
\* and no reference_id, and changes no other wallet's balance
C30_OneEntryOfTheAmount ==
    [][\A c \in Calls :
          ReturnsOk(c) =>
              /\ Len(ledger') = Len(ledger) + 1
              /\ SubSeq(ledger', 1, Len(ledger)) = ledger
              /\ ledger'[Len(ledger')].wallet = call[c].from
              /\ ledger'[Len(ledger')].type = call[c].op
              /\ ledger'[Len(ledger')].amount = call[c].amount
              /\ ledger'[Len(ledger')].ref = Null
              /\ \A w \in DOMAIN wallets :
                     w # call[c].from => wallets'[w] = wallets[w]]_vars

\* the committed entries of this step are those of the step before, as they were,
\* followed by what this step committed
LedgerExtended ==
    /\ Len(ledger') >= Len(ledger)
    /\ SubSeq(ledger', 1, Len(ledger)) = ledger

\* a Deposit, Withdraw or Transfer returns successfully in this step
SomeCallSucceeds ==
    \E c \in Calls :
        /\ call[c].op \in {"deposit", "withdraw", "transfer"}
        /\ call[c].pc # "done"
        /\ call'[c].pc = "done"
        /\ call'[c].res = "ok"

\* C31: every committed entry has an amount > 0 and one of the four kinds; every
\* step keeps the committed entries as they are and in place, and adds entries only
\* when a Deposit, Withdraw or Transfer returns successfully in it
C31_LedgerAppendOnly ==
    /\ [](\A i \in 1..Len(ledger) :
             ledger[i].amount > 0 /\ ledger[i].type \in TransactionTypes)
    /\ [][LedgerExtended /\ (ledger' # ledger => SomeCallSucceeds)]_vars

\* a Transfer has committed its pair of entries behind the funding deposit's, and
\* another call has failed at an insert the store rejected
C31_Witness ==
    /\ Len(ledger) = 3
    /\ ledger[1] = InitialLedger[1]
    /\ ledger[2].type = "transfer_out"
    /\ ledger[3].type = "transfer_in"
    /\ \E c \in Calls :
           /\ call[c].pc = "done"
           /\ call[c].res = "failed to record transaction"
           /\ faults = 0

\* the entries of es in the opposite order
RECURSIVE Reverse(_)
Reverse(es) == IF es = <<>> THEN <<>> ELSE Append(Reverse(Tail(es)), Head(es))

\* rows sorted by created_at, latest first; rows of equal created_at keep the order
\* the store holds them in
RECURSIVE OrderByCreatedAtDesc(_)
OrderByCreatedAtDesc(rows) ==
    IF rows = <<>> THEN <<>>
    ELSE LET latest == CHOOSE i \in 1..Len(rows) :
                           /\ \A j \in 1..Len(rows) : rows[j].created_at <= rows[i].created_at
                           /\ \A j \in 1..(i - 1) : rows[j].created_at < rows[i].created_at
             rest == [k \in 1..(Len(rows) - 1) |-> IF k < latest THEN rows[k] ELSE rows[k + 1]]
         IN  <<rows[latest]>> \o OrderByCreatedAtDesc(rest)

\* TransactionRepository.GetTransactionsByWalletID on the committed rows
GetTransactionsByWalletID(w) == OrderByCreatedAtDesc(EntriesOf(w))

\* C32: the history of each wallet is its committed entries, the entry of the
\* operation that changed the wallet's balance last first
C32_HistoryNewestFirst ==
    \A w \in DOMAIN wallets : GetTransactionsByWalletID(w) = Reverse(EntriesOf(w))

\* C33: the wallet a Deposit or Withdraw returns with success carries the balance
\* the call committed for its wallet in that step, which is the balance the call
\* read under lock plus, respectively minus, the amount
C33_ReturnedBalanceIsCommitted ==
    [][\A c \in Calls :
          ReturnsOk(c) =>
              /\ call'[c].out = Some(wallets'[call[c].from])
              /\ wallets'[call[c].from] = LockedRead(c) + Change(c)]_vars

\* a response is inserted into the cache in this step
Inserts ==
    /\ Len(served') = Len(served) + 1
    /\ served'[Len(served')].stored

\* the fingerprint the response of this step is inserted under, and the keys the
\* cache holds once it is inserted
InsertedKey == createRequestKey(served'[Len(served')].req)
KeysWithInserted == (DOMAIN cache) \cup {InsertedKey}

\* C34: an insert that brings the cache above the size threshold removes every
\* record older than 1 hour and no record younger than 1 hour, the inserted one
\* included; an insert that leaves the cache at or below the threshold removes no
\* record; the records an insert does not remove or replace stay as they are
C34_CleanupByAge ==
    [][Inserts =>
          /\ DOMAIN cache' \subseteq KeysWithInserted
          /\ InsertedKey \in DOMAIN cache'
          /\ cache'[InsertedKey].Timestamp = now
          /\ \A k \in (DOMAIN cache') \ {InsertedKey} : cache'[k] = cache[k]
          /\ IF Cardinality(KeysWithInserted) > CacheLimit
                 THEN \A k \in (DOMAIN cache) \ {InsertedKey} :
                          /\ now - cache[k].Timestamp > CleanupHours => k \notin DOMAIN cache'
                          /\ now - cache[k].Timestamp < CleanupHours => k \in DOMAIN cache'
                 ELSE DOMAIN cache' = KeysWithInserted]_vars

\* two different keyed requests were recorded more than 1 hour apart, and the
\* second insert removed the first record and kept its own
C34_Witness ==
    /\ Len(served) = 2
    /\ served[1].stored
    /\ served[2].stored
    /\ served[2].at - served[1].at > CleanupHours
    /\ served[2].at - served[1].at < TTLHours
    /\ DOMAIN cache = {createRequestKey(served[2].req)}
    /\ createRequestKey(served[1].req) # createRequestKey(served[2].req)

\* req is a create-user request whose body is a JSON value with an empty name, or
\* with no name
SendsEmptyName(req) ==
    /\ IsCreateUser(req)
    /\ ValidJson(req.body)
    /\ Decode(req.body, "name:", "") = ""

\* C35: a create-user request with an empty name that reached its handler was
\* answered 400 with the validation error, and no step of such a request inserts a
\* users row or a wallets row
C35_EmptyNameRejected ==
    /\ [](\A j \in 1..Len(served) :
             (SendsEmptyName(served[j].req) /\ ~served[j].hit) =>
                 /\ served[j].status = 400
                 /\ served[j].body = ErrorBody("Name is required")
                 /\ served[j].created = {})
    /\ [][\A r \in Calls :
             (SendsEmptyName(http'[r].req) /\ http'[r] # http[r]) =>
                 /\ users' = users
                 /\ wallets' = wallets
                 /\ owner' = owner]_vars

\* a create-user request with an empty name was answered by its handler, and the
\* users and wallets are those of the start
C35_Witness ==
    /\ Len(served) >= 1
    /\ SendsEmptyName(served[1].req)
    /\ ~served[1].hit
    /\ served[1].status = 400
    /\ DOMAIN users = InitialUsers
    /\ DOMAIN wallets = InitialWallets

\* record r is a Deposit with amount <= 0, or a Transfer with amount <= 0 or from
\* a wallet to the same wallet
FailsValidation(r) ==
    \/ r.op = "deposit" /\ r.amount <= 0
    \/ r.op = "transfer" /\ (r.amount <= 0 \/ r.from = r.to)

\* C36: the step in which a Deposit with amount <= 0, or a Transfer with amount <= 0
\* or from a wallet to itself, is called returns its validation error, begins no
\* store transaction and calls no store method: the store's clock, its rows, its
\* row locks and the failures it has had are as before; and such a call never has
\* a transaction or a row lock
C36_ValidationBeforeStore ==
    /\ [](\A c \in Calls :
             FailsValidation(call[c]) =>
                 /\ call[c].pc = "done"
                 /\ call[c].tx = "none"
                 /\ call[c].began = 0
                 /\ ~HoldsLock(c)
                 /\ call[c].res \in ValidationErrors \cup {"cannot transfer to the same wallet"})
    /\ [][\A c \in Calls :
             (FailsValidation(call'[c]) /\ call'[c] # call[c]) =>
                 /\ call[c].pc = "idle"
                 /\ lock' = lock
                 /\ txClock' = txClock
                 /\ faults' = faults
                 /\ wallets' = wallets
                 /\ ledger' = ledger]_vars

\* a Transfer from a wallet to itself has returned the same-wallet error without a
\* transaction while another call's transaction holds the row lock of that wallet
C36_Witness ==
    \E c, d \in Calls :
        /\ call[c].op = "transfer"
        /\ call[c].from = call[c].to
        /\ call[c].from \in DOMAIN wallets
        /\ call[c].amount > 0
        /\ call[c].pc = "done"
        /\ call[c].res = "cannot transfer to the same wallet"
        /\ call[c].tx = "none"
        /\ lock[call[c].from] = {d}

====
